---------------------------- MODULE Spec2Model ----------------------------
(***************************************************************************)
(* python-hddb: the schema operations of TableOperations                   *)
(* (operations/table_operations.py), the attach wrapper                    *)
(* (utils/decorators.py), the identifier generator (utils/helpers.py) and  *)
(* HdDB.create_database (client.py), run against a model of the one        *)
(* embedded-engine connection they share.                                  *)
(*                                                                         *)
(* The engine keeps a committed database and the connection's view of it;  *)
(* outside a transaction every statement auto-commits.  Every handler is   *)
(* one action: it runs the handler's engine calls in source order up to    *)
(* the first failing one, then the handler's except clause.                *)
(***************************************************************************)
EXTENDS Naturals, Integers, Sequences, FiniteSets, Bags, TLC

(***************************************************************************)
(* Bounds of the model.                                                    *)
(***************************************************************************)
\* operations performed in one behaviour
MaxSteps == 3
\* field ids (uuid4 values) generated in one behaviour
MaxFld == 3
\* an injected engine fault hits the k-th engine call of a handler, k <= MaxFault
MaxFault == 26

(***************************************************************************)
(* Inputs.                                                                 *)
(***************************************************************************)
TableNames == {"users", "courses"}
\* length=6 of generate_field_id: the letters of a random suffix
length == 6
\* Suffixes random.choices(string.ascii_letters, k=length) draws.
Suffixes == {"AbCdEf", "uvwXYZ"}
\* Column labels.
Labels == {"Name", "name", "Age", "City of Birth", "rcd___id"}
FieldIds == 1..MaxFld
FieldTypes == {"Txt", "Num"}

\* The datasets handed to create_table: column labels and row count.
Datasets ==
    { [labels |-> <<"Name">>, nrow |-> 1],
      [labels |-> <<"Name", "name">>, nrow |-> 3],
      [labels |-> <<"Name", "Name">>, nrow |-> 0],
      [labels |-> <<"rcd___id", "Name">>, nrow |-> 1],
      [labels |-> <<>>, nrow |-> 0] }

\* slugify(label, separator="_", regex_pattern=r"[^a-z0-9_]+") on the labels used.
slugify(label) ==
    CASE label = "Name" -> "name"
      [] label = "name" -> "name"
      [] label = "Age" -> "age"
      [] label = "City of Birth" -> "city_of_birth"
      [] OTHER -> label

\* The reserved name of the synthetic row key column.
RowKey == "rcd___id"

\* generate_field_id with no special case for the row key.
generate_field_id_suffixing_row_key(column_name, random_suffix) ==
    slugify(column_name) \o "_" \o random_suffix

\* A physical column name; random_suffix is the suffix drawn.
generate_field_id(column_name, random_suffix) ==
    IF column_name = "rcd___id"
    THEN "rcd___id"
    ELSE slugify(column_name) \o "_" \o random_suffix

\* generate_field_metadata with uuid4 called once, before the comprehension.
generate_field_metadata_one_uuid(labels, sfx, uuid0) ==
    [i \in 1..Len(labels) |->
        [fld___id |-> uuid0,
         label |-> labels[i],
         id |-> generate_field_id(labels[i], sfx[i])]]

\* One entry per column, in order: a fresh uuid, the label, the generated id.
generate_field_metadata(labels, sfx, uuid0) ==
    [i \in 1..Len(labels) |->
        [fld___id |-> uuid0 + i - 1,
         label |-> labels[i],
         id |-> generate_field_id(labels[i], sfx[i])]]

\* The cells of a data frame: None, float("nan"), a text, an integer.
Cells ==
    { [kind |-> "None"], [kind |-> "NaN"], [kind |-> "int", value |-> 30] }
    \cup { [kind |-> "str", text |-> t] :
              t \in {"John", "", "nan", "NaN", "None"} }

\* str(value), as astype(str) applies it to a cell.
str(value) ==
    CASE value.kind = "None" -> "None"
      [] value.kind = "NaN" -> "nan"
      [] value.kind = "int" -> ToString(value.value)
      [] value.kind = "str" -> value.text

\* df.astype(str).replace({"nan": "", "NaN": "", "None": "", float("nan"): ""})
\* on the cells of one column: after astype(str) every cell is a text, and a
\* cell equal to a key of the dict is replaced.
clean_dataframe(df) ==
    [i \in 1..Len(df) |->
        IF str(df[i]) \in {"nan", "NaN", "None"} THEN "" ELSE str(df[i])]

\* df.rename(columns={field["label"]: field["id"] for field in metadata}): the
\* dict keeps the last id of a repeated label, and every column of that label
\* is renamed to it.
RenamedColumns(labels, metadata) ==
    [i \in 1..Len(labels) |->
        LET last_j == CHOOSE j \in 1..Len(labels) :
                        /\ metadata[j].label = labels[i]
                        /\ \A k \in 1..Len(labels) :
                              metadata[k].label = labels[i] => k <= j
        IN metadata[last_j].id]


(***************************************************************************)
(* The engine: one database per connection view.                           *)
(*   db    whether the tenant database "org__db" exists                    *)
(*   phys  physical tables of the tenant database                          *)
(*   cat   whether the catalog relations hd_tables and hd_fields exist     *)
(*   hdt   rows of hd_tables  (a bag: the relations declare no key)        *)
(*   hdf   rows of hd_fields  (a bag)                                      *)
(*   mem   tables of the connection's current (in-memory) database         *)
(*   hdd   rows of hd_database                                             *)
(*   temp  the temporary relation temp_metadata                            *)
(***************************************************************************)
NoTable == [present |-> FALSE, cols |-> {}, nrow |-> 0]
NoTemp == [present |-> FALSE, rows |-> <<>>]

EmptyDB(hasCatalog) ==
    [db |-> TRUE,
     phys |-> [t \in TableNames |-> NoTable],
     cat |-> hasCatalog,
     hdt |-> EmptyBag,
     hdf |-> EmptyBag,
     mem |-> {},
     hdd |-> EmptyBag,
     temp |-> NoTemp]

BagAdd(B, row) == B (+) SetToBag({row})
BagKeep(B, Keep(_)) == [r \in {y \in BagToSet(B) : Keep(y)} |-> B[r]]
BagCount(B, Pick(_)) == BagCardinality(BagKeep(B, Pick))
SeqToBag(rows) ==
    [r \in {rows[i] : i \in 1..Len(rows)} |->
        Cardinality({i \in 1..Len(rows) : rows[i] = r})]
HasDuplicates(seq) ==
    \E i, j \in 1..Len(seq) : i < j /\ seq[i] = seq[j]

\* Outcome of one statement: the exception class the engine raises ("none",
\* "Catalog" for duckdb.CatalogException, "Error" for any other duckdb.Error)
\* and the database after it.
Ok(s) == [err |-> "none", s |-> s]
Fails(kind, s) == [err |-> kind, s |-> s]

\* CREATE TABLE "org__db"."tbl" (<cols> VARCHAR ...)
CreateTable(s, tbl, cols) ==
    IF Len(cols) = 0 THEN Fails("Error", s)
    ELSE IF HasDuplicates(cols) THEN Fails("Catalog", s)
    ELSE IF s.phys[tbl].present THEN Fails("Catalog", s)
    ELSE Ok([s EXCEPT !.phys[tbl] =
                [present |-> TRUE,
                 cols |-> {cols[i] : i \in 1..Len(cols)},
                 nrow |-> 0]])

\* INSERT INTO "org__db"."tbl" SELECT * FROM df_renamed
InsertData(s, tbl, nrow) ==
    IF ~s.phys[tbl].present THEN Fails("Catalog", s)
    ELSE Ok([s EXCEPT !.phys[tbl].nrow = @ + nrow])

\* INSERT INTO hd_tables (id, label, nrow, ncol) VALUES (?, ?, ?, ?)
InsertHdTables(s, row) ==
    IF ~s.cat THEN Fails("Catalog", s)
    ELSE Ok([s EXCEPT !.hdt = BagAdd(@, row)])

\* CREATE TEMP TABLE temp_metadata (...)
CreateTemp(s) ==
    IF s.temp.present THEN Fails("Catalog", s)
    ELSE Ok([s EXCEPT !.temp = [present |-> TRUE, rows |-> <<>>]])

\* INSERT INTO temp_metadata VALUES (?, ?, ?, ?)
InsertTemp(s, row) ==
    IF ~s.temp.present THEN Fails("Catalog", s)
    ELSE Ok([s EXCEPT !.temp.rows = Append(@, row)])

\* INSERT INTO hd_fields (...) SELECT tm.fld___id, tm.id, tm.label, '{tbl}', 'Txt'
\* FROM temp_metadata tm
InsertHdFieldsFromTemp(s, tbl) ==
    IF ~s.cat \/ ~s.temp.present THEN Fails("Catalog", s)
    ELSE Ok([s EXCEPT !.hdf = @ (+) SeqToBag(
                [i \in 1..Len(s.temp.rows) |->
                    [fld___id |-> s.temp.rows[i].fld___id,
                     id |-> s.temp.rows[i].id,
                     label |-> s.temp.rows[i].label,
                     tbl |-> tbl,
                     type |-> "Txt"]])])

\* DROP TABLE temp_metadata
DropTemp(s) ==
    IF ~s.temp.present THEN Fails("Catalog", s)
    ELSE Ok([s EXCEPT !.temp = NoTemp])

\* DROP TABLE IF EXISTS "org__db"."tbl"
DropTableIfExists(s, tbl) == Ok([s EXCEPT !.phys[tbl] = NoTable])

\* DELETE FROM hd_tables WHERE id = ?
DeleteHdTables(s, tbl) ==
    IF ~s.cat THEN Fails("Catalog", s)
    ELSE Ok([s EXCEPT !.hdt = BagKeep(@, LAMBDA r : r.id # tbl)])

\* DELETE FROM hd_fields WHERE tbl = ?
DeleteHdFieldsOfTable(s, tbl) ==
    IF ~s.cat THEN Fails("Catalog", s)
    ELSE Ok([s EXCEPT !.hdf = BagKeep(@, LAMBDA r : r.tbl # tbl)])

\* ALTER TABLE "org__db"."tbl" ADD COLUMN "slug" VARCHAR
AddColumn(s, tbl, slug) ==
    IF ~s.phys[tbl].present THEN Fails("Catalog", s)
    ELSE IF slug \in s.phys[tbl].cols THEN Fails("Catalog", s)
    ELSE Ok([s EXCEPT !.phys[tbl].cols = @ \cup {slug}])

\* The UPDATE of delete_column copied from add_column: ncol + 1 whatever d is.
UpdateNcol_always_adding(s, tbl, d) ==
    IF ~s.cat THEN Fails("Catalog", s)
    ELSE Ok([s EXCEPT !.hdt =
                BagOfAll(LAMBDA r : IF r.id = tbl
                                    THEN [r EXCEPT !.ncol = @ + 1]
                                    ELSE r, @)])

\* UPDATE hd_tables SET ncol = ncol + d WHERE id = ?
UpdateNcol(s, tbl, d) ==
    IF ~s.cat THEN Fails("Catalog", s)
    ELSE Ok([s EXCEPT !.hdt =
                BagOfAll(LAMBDA r : IF r.id = tbl
                                    THEN [r EXCEPT !.ncol = @ + d]
                                    ELSE r, @)])

\* INSERT INTO hd_fields (fld___id, id, label, tbl, type) VALUES (?, ?, ?, ?, ?)
InsertHdField(s, row) ==
    IF ~s.cat THEN Fails("Catalog", s)
    ELSE Ok([s EXCEPT !.hdf = BagAdd(@, row)])

\* ALTER TABLE "org__db"."tbl" DROP COLUMN "column_name"
DropColumn(s, tbl, column_name) ==
    IF ~s.phys[tbl].present THEN Fails("Catalog", s)
    ELSE IF column_name \notin s.phys[tbl].cols THEN Fails("Error", s)
    ELSE IF Cardinality(s.phys[tbl].cols) = 1 THEN Fails("Catalog", s)
    ELSE Ok([s EXCEPT !.phys[tbl].cols = @ \ {column_name}])

\* DELETE FROM hd_fields WHERE fld___id = ? AND tbl = ?
DeleteHdField(s, column_id, tbl) ==
    IF ~s.cat THEN Fails("Catalog", s)
    ELSE Ok([s EXCEPT !.hdf =
                BagKeep(@, LAMBDA r : ~(r.fld___id = column_id /\ r.tbl = tbl))])

\* The UPDATE of hd_fields with its WHERE clause left out.
UpdateHdField_without_where(s, fld___id, label, type) ==
    IF ~s.cat THEN Fails("Catalog", s)
    ELSE Ok([s EXCEPT !.hdf =
                BagOfAll(LAMBDA r : [r EXCEPT !.label = label, !.type = type], @)])

\* UPDATE hd_fields SET label = ?, type = ? WHERE fld___id = ?
UpdateHdField(s, fld___id, label, type) ==
    IF ~s.cat THEN Fails("Catalog", s)
    ELSE Ok([s EXCEPT !.hdf =
                BagOfAll(LAMBDA r : IF r.fld___id = fld___id
                                    THEN [r EXCEPT !.label = label, !.type = type]
                                    ELSE r, @)])

\* SELECT * FROM "org__db".hd_tables WHERE id = ?
SelectHdTables(s, tbl) ==
    IF ~s.cat THEN Fails("Catalog", s) ELSE Ok(s)

\* The rows that SELECT finds.
HdTablesRows(s, tbl) == {r \in BagToSet(s.hdt) : r.id = tbl}

\* CREATE TABLE hd_database (...): unqualified, so in the current database
CreateHdDatabase(s) ==
    IF "hd_database" \in s.mem THEN Fails("Catalog", s)
    ELSE Ok([s EXCEPT !.mem = @ \cup {"hd_database"}])

\* INSERT INTO hd_database (id, username, slug, db_n_tables) VALUES (?, ?, ?, ?)
InsertHdDatabase(s, tables) ==
    IF "hd_database" \notin s.mem THEN Fails("Catalog", s)
    ELSE Ok([s EXCEPT !.hdd = BagAdd(@, [id |-> "org__db", db_n_tables |-> tables])])

\* CREATE TABLE {table_name} AS SELECT * FROM df: unqualified as well
CreateTableAs(s, table_name) ==
    IF table_name \in s.mem THEN Fails("Catalog", s)
    ELSE Ok([s EXCEPT !.mem = @ \cup {table_name}])


\* DROP DATABASE "org__db": the database goes with all it holds.
DropDatabase(s) ==
    IF ~s.db THEN Fails("Catalog", s)
    ELSE Ok([s EXCEPT !.db = FALSE,
                      !.phys = [t \in TableNames |-> NoTable],
                      !.cat = FALSE,
                      !.hdt = EmptyBag,
                      !.hdf = EmptyBag])

(***************************************************************************)
(* One engine call.  A statement is a record whose k field names its kind. *)
(***************************************************************************)
Stmt(k) == [k |-> k]

\* The statements that name the tenant database.
TenantKinds ==
    {"CREATE TABLE", "INSERT DATA", "INSERT hd_tables", "INSERT hd_fields SELECT",
     "DROP TABLE", "DELETE hd_tables", "DELETE hd_fields tbl", "ADD COLUMN",
     "UPDATE ncol", "INSERT hd_fields", "DROP COLUMN", "DELETE hd_fields fld",
     "UPDATE hd_fields", "SELECT hd_tables"}

Apply(st, s) ==
    IF st.k \in TenantKinds /\ ~s.db THEN Fails("Catalog", s)
    ELSE
    CASE st.k = "DROP DATABASE" -> DropDatabase(s)
      [] st.k = "CREATE TABLE" -> CreateTable(s, st.tbl, st.cols)
      [] st.k = "INSERT DATA" -> InsertData(s, st.tbl, st.nrow)
      [] st.k = "INSERT hd_tables" -> InsertHdTables(s, st.row)
      [] st.k = "CREATE TEMP" -> CreateTemp(s)
      [] st.k = "INSERT temp" -> InsertTemp(s, st.row)
      [] st.k = "INSERT hd_fields SELECT" -> InsertHdFieldsFromTemp(s, st.tbl)
      [] st.k = "DROP TEMP" -> DropTemp(s)
      [] st.k = "DROP TABLE" -> DropTableIfExists(s, st.tbl)
      [] st.k = "DELETE hd_tables" -> DeleteHdTables(s, st.tbl)
      [] st.k = "DELETE hd_fields tbl" -> DeleteHdFieldsOfTable(s, st.tbl)
      [] st.k = "ADD COLUMN" -> AddColumn(s, st.tbl, st.slug)
      [] st.k = "UPDATE ncol" -> UpdateNcol(s, st.tbl, st.d)
      [] st.k = "INSERT hd_fields" -> InsertHdField(s, st.row)
      [] st.k = "DROP COLUMN" -> DropColumn(s, st.tbl, st.slug)
      [] st.k = "DELETE hd_fields fld" -> DeleteHdField(s, st.fld___id, st.tbl)
      [] st.k = "UPDATE hd_fields" -> UpdateHdField(s, st.fld___id, st.label, st.type)
      [] st.k = "CREATE hd_database" -> CreateHdDatabase(s)
      [] st.k = "INSERT hd_database" -> InsertHdDatabase(s, st.tables)
      [] st.k = "CREATE TABLE AS" -> CreateTableAs(s, st.tbl)
      [] st.k = "SELECT hd_tables" -> SelectHdTables(s, st.tbl)
      [] st.k = "ATTACH" -> Ok(s)

\* A statement that is no transaction control: outside a transaction its
\* effect is committed at once.
Autocommit(x, a) ==
    [err |-> a.err, s |-> a.s, c |-> IF x.tx THEN x.c ELSE a.s, tx |-> x.tx]

\* The run after one more call, whose outcome is r.
Record(x, st, r) ==
    [x EXCEPT !.s = r.s, !.c = r.c, !.tx = r.tx, !.n = @ + 1, !.err = r.err,
              !.log = Append(@, [k |-> st.k, ok |-> r.err = "none"])]

\* The run of a handler so far:
\*   s, c, tx  the connection's view, the committed database, transaction open
\*   n, log    engine calls made, and their kinds with their outcome
\*   err       exception class of the last engine call ("none" when it succeeded)
\*   exc, keys the exception leaving the handler and the context keys it carries
\*   uuid      the next fresh uuid4 value
\*   ret       the value the handler returns
\* What the engine does with one call.  The call an injected fault hits fails
\* with an engine error of its own (I/O, connection) and changes nothing,
\* except that a failed COMMIT or ROLLBACK discards the transaction.
Outcome(x, st, faulted) ==
    CASE faulted /\ st.k \in {"COMMIT", "ROLLBACK"} ->
            [err |-> "Error", s |-> x.c, c |-> x.c, tx |-> FALSE]
      [] faulted /\ st.k \notin {"COMMIT", "ROLLBACK"} ->
            [err |-> "Error", s |-> x.s, c |-> x.c, tx |-> x.tx]
      [] ~faulted /\ st.k = "BEGIN" ->
            IF x.tx
            THEN [err |-> "Error", s |-> x.s, c |-> x.c, tx |-> x.tx]
            ELSE [err |-> "none", s |-> x.s, c |-> x.c, tx |-> TRUE]
      [] ~faulted /\ st.k = "COMMIT" ->
            IF x.tx
            THEN [err |-> "none", s |-> x.s, c |-> x.s, tx |-> FALSE]
            ELSE [err |-> "Error", s |-> x.s, c |-> x.c, tx |-> x.tx]
      [] ~faulted /\ st.k = "ROLLBACK" ->
            IF x.tx
            THEN [err |-> "none", s |-> x.c, c |-> x.c, tx |-> FALSE]
            ELSE [err |-> "Error", s |-> x.s, c |-> x.c, tx |-> x.tx]
      [] OTHER -> Autocommit(x, Apply(st, x.s))

\* client.execute(query, parameters)
Exec(x, st, fault) == Record(x, st, Outcome(x, st, x.n + 1 = fault))

\* Statements in source order, up to and including the first that fails.
RECURSIVE RunSeq(_, _, _)
RunSeq(x, stmts, fault) ==
    IF stmts = <<>> \/ x.err # "none" THEN x
    ELSE RunSeq(Exec(x, Head(stmts), fault), Tail(stmts), fault)

Raise(x, exc, keys) == [x EXCEPT !.exc = exc, !.keys = keys]

(***************************************************************************)
(* State.                                                                  *)
(*   committed   the committed database                                    *)
(*   session     the database as the connection sees it                    *)
(*   inTxn       the connection has an open transaction                    *)
(*   token       os.environ["motherduck_token"] is set and non-empty       *)
(*   hasExecute  `self.execute` resolves on the receiver of the decorated  *)
(*               methods (TableOperations itself defines no execute)       *)
(*   nextUuid    the next value uuid4 returns                              *)
(*   steps       operations performed                                      *)
(*   last        the last operation: name, table, argument counts, whether *)
(*               the physical table existed when it was called, the        *)
(*               exception it left with and its context keys, and the      *)
(*               engine calls it made                                      *)
(*   call        the last call of a function that touches no connection:   *)
(*               its name, its arguments and what it returned or raised    *)
(***************************************************************************)
VARIABLES committed, session, inTxn, token, hasExecute, nextUuid, steps, last,
          call

vars ==
    <<committed, session, inTxn, token, hasExecute, nextUuid, steps, last, call>>

Start ==
    [s |-> session, c |-> committed, tx |-> inTxn, n |-> 0, log |-> <<>>,
     err |-> "none", exc |-> "none", keys |-> {}, uuid |-> nextUuid,
     ret |-> "None"]

\* An engine error of the wrapper's ATTACH leaves the wrapper as it is.
Attached(x1) ==
    IF x1.err # "none" THEN Raise(x1, "duckdb.Error", {}) ELSE x1

\* utils/decorators.py: the wrapper of every decorated method.
attach_motherduck(x, fault) ==
    IF ~token THEN Raise(x, "ValueError", {})
    ELSE IF ~hasExecute THEN Raise(x, "AttributeError", {})
    ELSE Attached(Exec(x, Stmt("ATTACH"), fault))

\* self.client.execute("ROLLBACK;") at the head of an except clause, then
\* the typed error; an error of the ROLLBACK itself leaves the handler as it is.
Rolledback(x1, exc, keys) ==
    IF x1.err # "none" THEN Raise(x1, "duckdb.Error", {})
    ELSE Raise(x1, exc, keys)

RollbackThenRaise(x, fault, exc, keys) ==
    Rolledback(Exec(x, Stmt("ROLLBACK"), fault), exc, keys)

\* _insert_table_metadata with the two counts of the hd_tables row swapped.
_insert_table_metadata_swapped_counts(tbl, nrow, columns, metadata) ==
    << [k |-> "INSERT hd_tables",
        row |-> [id |-> tbl, label |-> tbl, nrow |-> Len(columns), ncol |-> nrow]],
       Stmt("CREATE TEMP") >>
    \o [i \in 1..Len(metadata) |->
          [k |-> "INSERT temp",
           row |-> [fld___id |-> metadata[i].fld___id, id |-> metadata[i].id,
                    label |-> metadata[i].label, tbl |-> tbl]]]
    \o << [k |-> "INSERT hd_fields SELECT", tbl |-> tbl], Stmt("DROP TEMP") >>

\* The engine calls of _insert_table_metadata(org, db, tbl, df, metadata).
_insert_table_metadata(tbl, nrow, columns, metadata) ==
    << [k |-> "INSERT hd_tables",
        row |-> [id |-> tbl, label |-> tbl, nrow |-> nrow, ncol |-> Len(columns)]],
       Stmt("CREATE TEMP") >>
    \o [i \in 1..Len(metadata) |->
          [k |-> "INSERT temp",
           row |-> [fld___id |-> metadata[i].fld___id, id |-> metadata[i].id,
                    label |-> metadata[i].label, tbl |-> tbl]]]
    \o << [k |-> "INSERT hd_fields SELECT", tbl |-> tbl], Stmt("DROP TEMP") >>

\* The statements create_table runs between BEGIN and COMMIT.
create_table_statements(tbl, nrow, columns, metadata) ==
    << [k |-> "CREATE TABLE", tbl |-> tbl, cols |-> columns],
       [k |-> "INSERT DATA", tbl |-> tbl, nrow |-> nrow] >>
    \o _insert_table_metadata(tbl, nrow, columns, metadata)

\* except (duckdb.CatalogException, duckdb.Error) of create_table
create_table_except(x, fault) ==
    IF x.err = "none" THEN x
    ELSE RollbackThenRaise(x, fault,
            IF x.err = "Catalog" THEN "TableExistsError" ELSE "QueryError",
            IF x.err = "Catalog" THEN {"error", "org", "db", "table_name"}
                                 ELSE {"table", "org", "db"})

\* create_table with its BEGIN left out: every statement auto-commits.
create_table_try_without_begin(x, tbl, df, metadata, fault) ==
    RunSeq([x EXCEPT !.uuid = @ + Len(df.labels)],
           create_table_statements(tbl, df.nrow,
                                   RenamedColumns(df.labels, metadata), metadata)
           \o << Stmt("COMMIT") >>,
           fault)

\* The try block of create_table, from the metadata it generated.
create_table_try(x, tbl, df, metadata, fault) ==
    RunSeq([x EXCEPT !.uuid = @ + Len(df.labels)],
           << Stmt("BEGIN") >>
           \o create_table_statements(tbl, df.nrow,
                                      RenamedColumns(df.labels, metadata), metadata)
           \o << Stmt("COMMIT") >>,
           fault)

\* The body of create_table(org, db, tbl, df); sfx are the random suffixes drawn.
create_table_body(x, tbl, df, sfx, fault) ==
    create_table_except(
        create_table_try(x, tbl, df,
                         generate_field_metadata(df.labels, sfx, x.uuid), fault),
        fault)

\* A decorated method: the body runs when the wrapper's attach raised nothing.
create_table_wrapped(a, tbl, df, sfx, fault) ==
    IF a.exc # "none" THEN a ELSE create_table_body(a, tbl, df, sfx, fault)

create_table(x, tbl, df, sfx, fault) ==
    create_table_wrapped(attach_motherduck(x, fault), tbl, df, sfx, fault)

drop_table_statements(tbl) ==
    << [k |-> "DROP TABLE", tbl |-> tbl],
       [k |-> "DELETE hd_tables", tbl |-> tbl],
       [k |-> "DELETE hd_fields tbl", tbl |-> tbl] >>

drop_table_except(x, fault) ==
    IF x.err = "none" THEN x
    ELSE RollbackThenRaise(x, fault, "QueryError", {"table", "org", "db"})

drop_table_body(x, tbl, fault) ==
    drop_table_except(
        RunSeq(x, << Stmt("BEGIN") >> \o drop_table_statements(tbl)
                  \o << Stmt("COMMIT") >>, fault),
        fault)

drop_table_wrapped(a, tbl, fault) ==
    IF a.exc # "none" THEN a ELSE drop_table_body(a, tbl, fault)

drop_table(x, tbl, fault) ==
    drop_table_wrapped(attach_motherduck(x, fault), tbl, fault)

\* A column dictionary: has is the set of keys it holds.
add_column_statements(tbl, column) ==
    << [k |-> "ADD COLUMN", tbl |-> tbl, slug |-> column.slug],
       [k |-> "UPDATE ncol", tbl |-> tbl, d |-> 1],
       [k |-> "INSERT hd_fields",
        row |-> [fld___id |-> column.fld___id, id |-> column.slug,
                 label |-> column.headerName, tbl |-> tbl,
                 type |-> column.type]] >>

\* except duckdb.Error of add_column: the QueryError's details read column["slug"].
add_column_except(x, column, fault) ==
    RollbackThenRaise(x, fault,
        IF "slug" \in column.has THEN "QueryError" ELSE "KeyError",
        IF "slug" \in column.has THEN {"table", "column", "org", "db"} ELSE {})

\* The try block of add_column.  column["slug"] is first read when the ALTER
\* statement is formatted, the other keys when the INSERT's parameter list is
\* built; a KeyError is no duckdb.Error and passes the except clause.
add_column_inserted(x, column, fault) ==
    IF x.err # "none" THEN add_column_except(x, column, fault) ELSE x

add_column_altered(x, tbl, column, fault) ==
    IF x.err # "none" THEN add_column_except(x, column, fault)
    ELSE IF {"fld___id", "headerName", "type"} \ column.has # {}
    THEN Raise(x, "KeyError", {})
    ELSE add_column_inserted(
            RunSeq(x, SubSeq(add_column_statements(tbl, column), 3, 3)
                      \o << Stmt("COMMIT") >>, fault),
            column, fault)

add_column_begun(x, tbl, column, fault) ==
    IF x.err # "none" THEN add_column_except(x, column, fault)
    ELSE IF "slug" \notin column.has THEN Raise(x, "KeyError", {})
    ELSE add_column_altered(
            RunSeq(x, SubSeq(add_column_statements(tbl, column), 1, 2), fault),
            tbl, column, fault)

add_column_body(x, tbl, column, fault) ==
    add_column_begun(RunSeq(x, << Stmt("BEGIN") >>, fault), tbl, column, fault)

add_column_wrapped(a, tbl, column, fault) ==
    IF a.exc # "none" THEN a ELSE add_column_body(a, tbl, column, fault)

add_column(x, tbl, column, fault) ==
    add_column_wrapped(attach_motherduck(x, fault), tbl, column, fault)

delete_column_statements(tbl, column) ==
    << [k |-> "DROP COLUMN", tbl |-> tbl, slug |-> column.slug],
       [k |-> "UPDATE ncol", tbl |-> tbl, d |-> -1],
       [k |-> "DELETE hd_fields fld", fld___id |-> column.fld___id, tbl |-> tbl] >>

delete_column_except(x, fault) ==
    IF x.err = "none" THEN x
    ELSE RollbackThenRaise(x, fault, "QueryError",
                           {"table", "column", "org", "db"})

\* column["slug"] and column["fld___id"] are read before BEGIN.
delete_column_body(x, tbl, column, fault) ==
    IF {"slug", "fld___id"} \ column.has # {} THEN Raise(x, "KeyError", {})
    ELSE delete_column_except(
            RunSeq(x, << Stmt("BEGIN") >> \o delete_column_statements(tbl, column)
                      \o << Stmt("COMMIT") >>, fault),
            fault)

delete_column_wrapped(a, tbl, column, fault) ==
    IF a.exc # "none" THEN a ELSE delete_column_body(a, tbl, column, fault)

delete_column(x, tbl, column, fault) ==
    delete_column_wrapped(attach_motherduck(x, fault), tbl, column, fault)

update_field_metadata_except(x) ==
    IF x.err = "none" THEN x
    ELSE Raise(x, "QueryError",
               {"org", "db", "field_id", "new_label", "new_type"})

\* A single UPDATE with no BEGIN/COMMIT of its own.
update_field_metadata_body(x, fld___id, label, type, fault) ==
    update_field_metadata_except(
        RunSeq(x, << [k |-> "UPDATE hd_fields", fld___id |-> fld___id,
                      label |-> label, type |-> type] >>, fault))

update_field_metadata_wrapped(a, fld___id, label, type, fault) ==
    IF a.exc # "none" THEN a
    ELSE update_field_metadata_body(a, fld___id, label, type, fault)

update_field_metadata(x, fld___id, label, type, fault) ==
    update_field_metadata_wrapped(attach_motherduck(x, fault),
                                  fld___id, label, type, fault)

\* What HdDB.execute hands back for the cursor of self.conn.execute: the
\* method has no return statement.
NoneValue == [none |-> TRUE, rows |-> {}]
Cursor(rows) == [none |-> FALSE, rows |-> rows]
HdDB_execute(cursor) == NoneValue

\* result.fetchdf().to_dict(orient="records"), the not-found check and the
\* returned dictionary, built from the first record.
get_table_metadata_result(x, result) ==
    IF result.none THEN Raise(x, "AttributeError", {})
    ELSE IF result.rows = {}
    THEN Raise(x, "QueryError", {"org", "db", "table"})
    ELSE [x EXCEPT !.ret = [nrow |-> (CHOOSE r \in result.rows : TRUE).nrow,
                            ncol |-> (CHOOSE r \in result.rows : TRUE).ncol,
                            tbl_name |-> (CHOOSE r \in result.rows : TRUE).id]]

\* except duckdb.Error of get_table_metadata: no ROLLBACK, there is no BEGIN.
get_table_metadata_selected(x, tbl) ==
    IF x.err # "none" THEN Raise(x, "QueryError", {"org", "db", "table"})
    ELSE get_table_metadata_result(x, HdDB_execute(Cursor(HdTablesRows(x.s, tbl))))

get_table_metadata_body(x, tbl, fault) ==
    get_table_metadata_selected(
        Exec(x, [k |-> "SELECT hd_tables", tbl |-> tbl], fault), tbl)

get_table_metadata_wrapped(a, tbl, fault) ==
    IF a.exc # "none" THEN a ELSE get_table_metadata_body(a, tbl, fault)

get_table_metadata(x, tbl, fault) ==
    get_table_metadata_wrapped(attach_motherduck(x, fault), tbl, fault)

\* except duckdb.Error of TableOperations.drop_database
drop_database_except(x) ==
    IF x.err = "none" THEN x ELSE Raise(x, "QueryError", {"org", "db"})

\* The body of TableOperations.drop_database(org, db).
drop_database_body(x, fault) ==
    drop_database_except(Exec(x, Stmt("DROP DATABASE"), fault))

drop_database_wrapped(a, fault) ==
    IF a.exc # "none" THEN a ELSE drop_database_body(a, fault)

drop_database(x, fault) ==
    drop_database_wrapped(attach_motherduck(x, fault), fault)

_create_hd_database_except(x, fault) ==
    IF x.err = "none" THEN x
    ELSE RollbackThenRaise(x, fault, "QueryError", {})

\* _create_hd_database(org, db, tables)
_create_hd_database(x, tables, fault) ==
    _create_hd_database_except(
        RunSeq(x, << Stmt("BEGIN"),
                     Stmt("CREATE hd_database"),
                     [k |-> "INSERT hd_database", tables |-> tables],
                     Stmt("COMMIT") >>, fault),
        fault)

\* for df, table_name in zip(dataframes, names): self.create_table(...)
RECURSIVE CreateTables(_, _, _, _, _)
CreateTables(x, dataframes, names, sfxs, fault) ==
    IF dataframes = <<>> \/ x.exc # "none" THEN x
    ELSE CreateTables(
            create_table(x, Head(names), Head(dataframes), Head(sfxs), fault),
            Tail(dataframes), Tail(names), Tail(sfxs), fault)

\* The except clause of create_database logging the error and returning.
create_database_except_swallowing(x) ==
    IF x.exc # "none" THEN Raise(x, "none", {}) ELSE x

\* except (duckdb.Error, Exception) of create_database
create_database_except(x) ==
    IF x.exc # "none" THEN Raise(x, "QueryError", {"org", "db"}) ELSE x

\* The body of TableOperations.create_database(org, db, dataframes, names).
create_database_body(x, dataframes, names, sfxs, fault) ==
    IF Len(dataframes) # Len(names) THEN Raise(x, "ValueError", {})
    ELSE create_database_except(
            CreateTables(_create_hd_database(x, Len(dataframes), fault),
                         dataframes, names, sfxs, fault))

create_database_wrapped(a, dataframes, names, sfxs, fault) ==
    IF a.exc # "none" THEN a
    ELSE create_database_body(a, dataframes, names, sfxs, fault)

create_database(x, dataframes, names, sfxs, fault) ==
    create_database_wrapped(attach_motherduck(x, fault),
                            dataframes, names, sfxs, fault)

HdDB_create_database_except(x) ==
    IF x.err = "none" THEN x ELSE Raise(x, "QueryError", {})

\* HdDB.create_database(dataframes, names) of client.py: undecorated, and
\* each CREATE TABLE ... AS auto-commits.
HdDB_create_database(x, dataframes, names, fault) ==
    IF Len(dataframes) # Len(names) THEN Raise(x, "ValueError", {})
    ELSE HdDB_create_database_except(
            RunSeq(x, [i \in 1..Len(names) |->
                         [k |-> "CREATE TABLE AS", tbl |-> names[i]]], fault))

\* client.py: the wrapper of HdDB's decorated methods; it reads no token, and
\* HdDB defines execute.
HdDB_attach_motherduck(x, fault) ==
    Attached(Exec(x, Stmt("ATTACH"), fault))

HdDB_drop_database_except(x) ==
    IF x.err = "none" THEN x ELSE Raise(x, "ConnectionError", {})

\* The body of HdDB.drop_database(org, db): the token is read here.
HdDB_drop_database_body(x, fault) ==
    IF ~token THEN Raise(x, "ValueError", {})
    ELSE HdDB_drop_database_except(Exec(x, Stmt("DROP DATABASE"), fault))

HdDB_drop_database_wrapped(a, fault) ==
    IF a.exc # "none" THEN a ELSE HdDB_drop_database_body(a, fault)

HdDB_drop_database(x, fault) ==
    HdDB_drop_database_wrapped(HdDB_attach_motherduck(x, fault), fault)

(***************************************************************************)
(* The fetch request (models/params.py) and the query builder              *)
(* (utils/query_builders.py).  SQL fragments are strings.  A sort          *)
(* expression, which the builder takes apart, is the sequence of its       *)
(* pieces: a piece is a blank, a comma, or a run of other characters.      *)
(***************************************************************************)
\* What a function hands back: a value, or the exception it raises.
Returns(value) == [exc |-> "none", value |-> value]
Raises(exc) == [exc |-> exc, value |-> ""]

\* Optional[str]
NoSort == [none |-> TRUE, text |-> <<>>]
Sort(text) == [none |-> FALSE, text |-> text]

\* The string made of the pieces.
RECURSIVE Concat(_)
Concat(text) ==
    IF text = <<>> THEN "" ELSE Head(text) \o Concat(Tail(text))

\* sep.join(strings)
RECURSIVE join(_, _)
join(sep, strings) ==
    IF strings = <<>> THEN ""
    ELSE IF Len(strings) = 1 THEN strings[1]
    ELSE strings[1] \o sep \o join(sep, Tail(strings))

\* text.split(","): the pieces between the commas
RECURSIVE split_comma(_)
split_comma(text) ==
    IF \A i \in 1..Len(text) : text[i] # ","
    THEN <<text>>
    ELSE << SubSeq(text, 1, (CHOOSE i \in 1..Len(text) :
                                /\ text[i] = ","
                                /\ \A j \in 1..(i - 1) : text[j] # ",") - 1) >>
         \o split_comma(SubSeq(text,
                               (CHOOSE i \in 1..Len(text) :
                                   /\ text[i] = ","
                                   /\ \A j \in 1..(i - 1) : text[j] # ",") + 1,
                               Len(text)))

\* text.strip()
RECURSIVE strip(_)
strip(text) ==
    IF text = <<>> THEN text
    ELSE IF Head(text) = " " THEN strip(Tail(text))
    ELSE IF text[Len(text)] = " " THEN strip(SubSeq(text, 1, Len(text) - 1))
    ELSE text

\* part.split()[0] of a stripped part that is not empty: up to its first blank
RECURSIVE first_word(_)
first_word(part) ==
    IF part = <<>> \/ Head(part) = " " THEN <<>>
    ELSE <<Head(part)>> \o first_word(Tail(part))

\* is_doing_grouping with >= for >.
is_doing_grouping_from_equal_length(params) ==
    Len(params.row_group_cols) >= Len(params.group_keys)

is_doing_grouping(params) ==
    Len(params.row_group_cols) > Len(params.group_keys)

\* a_list[index], Python's index counting from 0
Item(a_list, index) ==
    IF index < Len(a_list) THEN Returns(a_list[index + 1])
    ELSE Raises("IndexError")

build_select_sql_of(row_group_col) ==
    IF row_group_col.exc # "none" THEN row_group_col
    ELSE Returns("SELECT cast(uuid() as varchar) as rcd___id,"
                 \o join(", ", <<row_group_col.value>>))

build_select_sql(params) ==
    IF is_doing_grouping(params)
    THEN build_select_sql_of(Item(params.row_group_cols, Len(params.group_keys)))
    ELSE Returns("SELECT *")

\* build_where_sql with `and` for the `or` of its guard.
build_where_sql_guarding_both(params) ==
    IF params.group_keys = <<>> /\ params.row_group_cols = <<>>
    THEN Returns("")
    ELSE IF Len(params.group_keys) > Len(params.row_group_cols)
    THEN Raises("IndexError")
    ELSE Returns(" WHERE "
                 \o join(" AND ",
                         [idx \in 1..Len(params.group_keys) |->
                            "\"" \o params.row_group_cols[idx] \o "\" = '"
                                 \o params.group_keys[idx] \o "'"]))

\* params.row_group_cols[idx] raises for the first key past the columns.
build_where_sql(params) ==
    IF params.group_keys = <<>> \/ params.row_group_cols = <<>>
    THEN Returns("")
    ELSE IF Len(params.group_keys) > Len(params.row_group_cols)
    THEN Raises("IndexError")
    ELSE Returns(" WHERE "
                 \o join(" AND ",
                         [idx \in 1..Len(params.group_keys) |->
                            "\"" \o params.row_group_cols[idx] \o "\" = '"
                                 \o params.group_keys[idx] \o "'"]))

build_group_sql_of(row_group_col) ==
    IF row_group_col.exc # "none" THEN row_group_col
    ELSE Returns("GROUP BY \"" \o row_group_col.value \o "\"")

build_group_sql(params) ==
    IF ~is_doing_grouping(params) THEN Returns("")
    ELSE build_group_sql_of(Item(params.row_group_cols, Len(params.group_keys)))

\* [part.strip() for part in params.sort.split(",")]
order_parts(sort) ==
    [i \in 1..Len(split_comma(sort.text)) |-> strip(split_comma(sort.text)[i])]

\* part.split()[0] in params.row_group_cols
leads_with_group_col(part, row_group_cols) ==
    \E i \in 1..Len(row_group_cols) :
        Concat(first_word(part)) = row_group_cols[i]

\* The filtered parts; part.split()[0] raises on a part with no word.
build_order_sql_filtered(params, parts) ==
    IF \E i \in 1..Len(parts) : parts[i] = <<>>
    THEN Raises("IndexError")
    ELSE Returns(SelectSeq(parts,
                    LAMBDA part : leads_with_group_col(part, params.row_group_cols)))

build_order_sql_grouping(params, filtered_parts) ==
    IF filtered_parts.exc # "none" THEN filtered_parts
    ELSE IF /\ filtered_parts.value # <<>>
            /\ Len(filtered_parts.value) > Len(params.group_keys)
    THEN Returns("ORDER BY "
                 \o Concat(filtered_parts.value[Len(params.group_keys) + 1]))
    ELSE Returns("ORDER BY " \o Concat(params.sort.text))

build_order_sql(params) ==
    IF params.sort.none \/ params.sort.text = <<>> THEN Returns("")
    ELSE IF is_doing_grouping(params)
    THEN build_order_sql_grouping(params,
            build_order_sql_filtered(params, order_parts(params.sort)))
    ELSE Returns("ORDER BY " \o Concat(params.sort.text))

\* A line break of the triple-quoted string, with the indentation after it.
Newline == "\n "

\* The grouped count with the where fragment left out of the inner query.
build_count_sql_of_without_where(row_group_col, from_sql, where_sql) ==
    IF row_group_col.exc # "none" THEN row_group_col
    ELSE Returns(<< Newline, "SELECT", " ", "COUNT(*)", " ", Newline,
                    "FROM", " ", "(", Newline,
                    "SELECT", " ", "DISTINCT", " ", row_group_col.value, " ", Newline,
                    from_sql, " ", Newline,
                    ")", Newline >>)

\* The count query is given as the pieces of the string, in order: the words
\* of the template, the blanks and line breaks between them, and the
\* interpolated fragments.
build_count_sql_of(row_group_col, from_sql, where_sql) ==
    IF row_group_col.exc # "none" THEN row_group_col
    ELSE Returns(<< Newline, "SELECT", " ", "COUNT(*)", " ", Newline,
                    "FROM", " ", "(", Newline,
                    "SELECT", " ", "DISTINCT", " ", row_group_col.value, " ", Newline,
                    from_sql, " ", Newline,
                    where_sql, Newline,
                    ")", Newline >>)

build_count_sql(params, from_sql, where_sql) ==
    IF is_doing_grouping(params)
    THEN build_count_sql_of(Item(params.row_group_cols, Len(params.group_keys)),
                            from_sql, where_sql)
    ELSE Returns(<< "SELECT", " ", "COUNT(*)", " ", from_sql, " ", where_sql >>)

\* The info a field_validator gets as its third argument: an object that
\* holds the fields validated so far in its data attribute, and is itself no
\* mapping.
ValidationInfo(data) == [mapping |-> FALSE, data |-> data]

\* key in values
Contains(values, key) ==
    IF values.mapping THEN Returns(key \in DOMAIN values.data)
    ELSE Raises("TypeError")

end_row_checked(v, values, has_start_row) ==
    IF has_start_row.exc # "none" THEN has_start_row
    ELSE IF has_start_row.value /\ v <= values.data["start_row"]
    THEN Raises("ValueError")
    ELSE Returns(v)

\* The validator of end_row: (cls, v, values).
end_row_must_be_greater_than_start_row(v, values) ==
    end_row_checked(v, values, Contains(values, "start_row"))

\* The fields validated before end_row: start_row when it is >= 0.
ValidatedBeforeEndRow(kwargs) ==
    [f \in (IF kwargs.start_row >= 0 THEN {"start_row"} ELSE {}) |->
        kwargs.start_row]

\* The model's validation, field by field, from what the validator of
\* end_row gave (it runs when end_row > 0): a ValueError of a validator is a
\* validation error like a bound that does not hold, any other exception
\* leaves the constructor as it is.
FetchParams_validated(kwargs, end_row) ==
    IF end_row.exc \notin {"none", "ValueError"} THEN end_row
    ELSE IF kwargs.start_row < 0 \/ end_row.exc = "ValueError"
    THEN Raises("ValidationError")
    ELSE Returns(kwargs)

\* FetchParams(start_row=..., end_row=..., sort=..., row_group_cols=...,
\* group_keys=...)
FetchParams(kwargs) ==
    IF kwargs.end_row <= 0
    THEN Raises("ValidationError")
    ELSE FetchParams_validated(kwargs,
            end_row_must_be_greater_than_start_row(
                kwargs.end_row, ValidationInfo(ValidatedBeforeEndRow(kwargs))))

(***************************************************************************)
(* Actions: one per operation.                                             *)
(***************************************************************************)
\* The calls an injected fault can hit: those of the fault-free run x0 (a
\* fault changes nothing before the call it hits).
Faults(x0) == 0..(IF Len(x0.log) < MaxFault THEN Len(x0.log) ELSE MaxFault)

\* The random suffixes drawn for the columns of a dataset; the first is "AbCdEf"
\* (the two suffixes are interchangeable), the others are equal to it or not.
SuffixChoices(labels) ==
    { sfx \in [1..Len(labels) -> Suffixes] : Len(labels) = 0 \/ sfx[1] = "AbCdEf" }

\* Column dictionaries handed to add_column and delete_column.
ColumnIds == {"name_AbCdEf", "extra"}
AllKeys == {"slug", "fld___id", "headerName", "type"}
Columns ==
    { [slug |-> c, fld___id |-> f, headerName |-> "Extra", type |-> "Num",
       has |-> AllKeys] : c \in ColumnIds, f \in FieldIds }
PartialColumns ==
    { [slug |-> "extra", fld___id |-> 1, headerName |-> "Extra",
       type |-> "Num", has |-> AllKeys \ {k}] : k \in {"slug", "fld___id"} }

Finish(x, op, tbl, args) ==
    /\ steps < MaxSteps
    /\ x.uuid <= MaxFld + 1
    /\ committed' = x.c
    /\ session' = x.s
    /\ inTxn' = x.tx
    /\ nextUuid' = x.uuid
    /\ steps' = steps + 1
    /\ last' = [op |-> op, tbl |-> tbl, args |-> args,
                existed |-> tbl \in TableNames /\ session.phys[tbl].present,
                exc |-> x.exc, keys |-> x.keys, log |-> x.log]
    /\ UNCHANGED <<token, hasExecute, call>>

CreateTableOp ==
    \E tbl \in TableNames, df \in Datasets :
        \E sfx \in SuffixChoices(df.labels) :
          \E fault \in Faults(create_table(Start, tbl, df, sfx, 0)) :
            Finish(create_table(Start, tbl, df, sfx, fault), "create_table", tbl, <<>>)

DropTableOp ==
    \E tbl \in TableNames :
      \E fault \in Faults(drop_table(Start, tbl, 0)) :
        Finish(drop_table(Start, tbl, fault), "drop_table", tbl, <<>>)

AddColumnOp ==
    \E tbl \in TableNames, column \in Columns \cup PartialColumns :
      \E fault \in Faults(add_column(Start, tbl, column, 0)) :
        Finish(add_column(Start, tbl, column, fault), "add_column", tbl, <<>>)

DeleteColumnOp ==
    \E tbl \in TableNames, column \in Columns \cup PartialColumns :
      \E fault \in Faults(delete_column(Start, tbl, column, 0)) :
        Finish(delete_column(Start, tbl, column, fault), "delete_column", tbl, <<>>)

\* The dataset lists handed to the two create_database methods.
DatasetLists ==
    { <<>>,
      << [labels |-> <<"Name">>, nrow |-> 1] >>,
      << [labels |-> <<"Name">>, nrow |-> 1],
         [labels |-> <<"Name", "name">>, nrow |-> 3] >> }
NameLists ==
    { <<>>, <<"users">>, <<"users", "courses">>, <<"users", "users">> }
RECURSIVE SuffixLists(_)
SuffixLists(dataframes) ==
    IF dataframes = <<>> THEN {<<>>}
    ELSE { <<sfx>> \o rest : sfx \in SuffixChoices(Head(dataframes).labels),
                              rest \in SuffixLists(Tail(dataframes)) }

CreateDatabaseOp ==
    \E dataframes \in DatasetLists, names \in NameLists :
        \E sfxs \in SuffixLists(dataframes) :
          \E fault \in Faults(create_database(Start, dataframes, names, sfxs, 0)) :
            Finish(create_database(Start, dataframes, names, sfxs, fault),
                   "create_database", "",
                   [dataframes |-> Len(dataframes), names |-> names])

HdDBCreateDatabaseOp ==
    \E dataframes \in DatasetLists, names \in NameLists :
      \E fault \in Faults(HdDB_create_database(Start, dataframes, names, 0)) :
        Finish(HdDB_create_database(Start, dataframes, names, fault),
               "HdDB.create_database", "",
               [dataframes |-> Len(dataframes), names |-> names])

DropDatabaseOp ==
    \E fault \in Faults(drop_database(Start, 0)) :
        Finish(drop_database(Start, fault), "drop_database", "", <<>>)

HdDBDropDatabaseOp ==
    \E fault \in Faults(HdDB_drop_database(Start, 0)) :
        Finish(HdDB_drop_database(Start, fault), "HdDB.drop_database", "", <<>>)

UpdateFieldMetadataOp ==
    \E f \in FieldIds, type \in FieldTypes :
      \E fault \in Faults(update_field_metadata(Start, f, "Label", type, 0)) :
        Finish(update_field_metadata(Start, f, "Label", type, fault),
               "update_field_metadata", "", <<>>)

GetTableMetadataOp ==
    \E tbl \in TableNames :
      \E fault \in Faults(get_table_metadata(Start, tbl, 0)) :
        Finish(get_table_metadata(Start, tbl, fault), "get_table_metadata", tbl, <<>>)

NoLast ==
    [op |-> "none", tbl |-> "", args |-> <<>>, existed |-> FALSE,
     exc |-> "none", keys |-> {}, log |-> <<>>]

NoCall == [fn |-> "none", args |-> <<>>, out |-> <<>>]

\* A fresh connection; the tenant database holds no table, and its catalog
\* relations (which no code of the library creates) exist or do not.
Init ==
    /\ \E hasCatalog \in BOOLEAN :
          /\ committed = EmptyDB(hasCatalog)
          /\ session = EmptyDB(hasCatalog)
    /\ inTxn = FALSE
    /\ token \in BOOLEAN
    /\ hasExecute \in BOOLEAN
    /\ nextUuid = 1
    /\ steps = 0
    /\ last = NoLast
    /\ call = NoCall

Next ==
    \/ CreateTableOp
    \/ DropTableOp
    \/ AddColumnOp
    \/ DeleteColumnOp
    \/ UpdateFieldMetadataOp

\* The table-level operations on one tenant database.
Spec == Init /\ [][Next]_vars

NextDb ==
    \/ CreateDatabaseOp
    \/ HdDBCreateDatabaseOp
    \/ DropDatabaseOp
    \/ HdDBDropDatabaseOp

\* Database creation and deletion, through TableOperations and through HdDB.
SpecDb == Init /\ [][NextDb]_vars

NextMeta ==
    \/ CreateTableOp
    \/ DropTableOp
    \/ GetTableMetadataOp

\* Reading the catalog of a database whose tables come and go.
SpecMeta == Init /\ [][NextMeta]_vars

\* The requests handed to the query builder.
RowNumbers == {-1, 0, 1, 2}
SortExpressions ==
    { NoSort,
      Sort(<<>>),
      Sort(<<"country", " ", "ASC">>),
      Sort(<<"country", " ", "ASC", ",", " ", "city", " ", "DESC">>),
      Sort(<<"city", " ", "DESC", ",", "country">>),
      Sort(<<"population", " ", "DESC">>),
      Sort(<<"population", ",", "city">>),
      Sort(<<"country", " ", "ASC", ",">>),
      Sort(<<" ">>) }
GroupColumns == { <<>>, <<"country">>, <<"country", "city">> }
GroupKeys == { <<>>, <<"US">>, <<"US", "NYC">> }

FetchRequests ==
    [start_row : RowNumbers, end_row : RowNumbers, sort : SortExpressions,
     row_group_cols : GroupColumns, group_keys : GroupKeys]

\* The requests the builder is applied to: any request on its grouping and
\* sort fields, with one page.
BuilderRequests == {p \in FetchRequests : p.start_row = 0 /\ p.end_row = 1}

\* The where fragments handed to build_count_sql: that of the request's main
\* query, or none.
WhereFragments(params) ==
    {""} \cup (IF build_where_sql(params).exc = "none"
               THEN {build_where_sql(params).value} ELSE {})

\* The record of a call, and what a call leaves alone.
Called(fn, args, out) == [fn |-> fn, args |-> args, out |-> out]
connection == <<committed, session, inTxn, token, hasExecute, nextUuid, steps, last>>

FetchParamsOp ==
    \E kwargs \in FetchRequests :
        /\ call' = Called("FetchParams", kwargs, FetchParams(kwargs))
        /\ UNCHANGED connection

BuildSelectOp ==
    \E params \in BuilderRequests :
        /\ call' = Called("build_select_sql", params, build_select_sql(params))
        /\ UNCHANGED connection

BuildWhereOp ==
    \E params \in BuilderRequests :
        /\ call' = Called("build_where_sql", params, build_where_sql(params))
        /\ UNCHANGED connection

BuildGroupOp ==
    \E params \in BuilderRequests :
        /\ call' = Called("build_group_sql", params, build_group_sql(params))
        /\ UNCHANGED connection

BuildOrderOp ==
    \E params \in BuilderRequests :
        /\ call' = Called("build_order_sql", params, build_order_sql(params))
        /\ UNCHANGED connection

BuildCountOp ==
    \E params \in BuilderRequests :
      \E where_sql \in WhereFragments(params) :
        /\ call' = Called("build_count_sql",
               [params |-> params, from_sql |-> "FROM t", where_sql |-> where_sql],
               build_count_sql(params, "FROM t", where_sql))
        /\ UNCHANGED connection

GenerateFieldIdOp ==
    \E column_name \in Labels, random_suffix \in Suffixes :
        /\ call' = Called("generate_field_id",
               [column_name |-> column_name, random_suffix |-> random_suffix],
               Returns(generate_field_id(column_name, random_suffix)))
        /\ UNCHANGED connection

\* The column labels of the data frames handed to generate_field_metadata.
ColumnLists ==
    {df.labels : df \in Datasets} \cup {<<"Name", "Age", "City of Birth">>}

\* uuid4 hands out nextUuid, nextUuid + 1, ...: one value per column.
GenerateFieldMetadataOp ==
    \E labels \in ColumnLists :
      \E sfx \in SuffixChoices(labels) :
        /\ nextUuid + Len(labels) <= MaxFld + 1
        /\ call' = Called("generate_field_metadata", labels,
               Returns(generate_field_metadata(labels, sfx, nextUuid)))
        /\ nextUuid' = nextUuid + Len(labels)
        /\ UNCHANGED <<committed, session, inTxn, token, hasExecute, steps, last>>

\* The columns handed to clean_dataframe: one or two cells.
DataFrames ==
    { <<v>> : v \in Cells } \cup { <<v, w>> : v, w \in Cells }

CleanDataframeOp ==
    \E df \in DataFrames :
        /\ call' = Called("clean_dataframe", df, Returns(clean_dataframe(df)))
        /\ UNCHANGED connection

NextPure ==
    \/ GenerateFieldIdOp
    \/ CleanDataframeOp
    \/ GenerateFieldMetadataOp
    \/ FetchParamsOp
    \/ BuildSelectOp
    \/ BuildWhereOp
    \/ BuildGroupOp
    \/ BuildOrderOp
    \/ BuildCountOp

\* The functions that touch no connection, on one fresh connection.
InitPure == Init /\ token /\ hasExecute /\ session.cat

SpecPure == InitPure /\ [][NextPure]_vars

(***************************************************************************)
(* Properties.                                                             *)
(***************************************************************************)
SchemaOps == {"create_table", "drop_table", "add_column", "delete_column"}

\* What the schema operations maintain of a database.
Schema(db) == [phys |-> db.phys, hdt |-> db.hdt, hdf |-> db.hdf]

\* The database after all of the statements, each applied in turn.
RECURSIVE ApplyAll(_, _)
ApplyAll(s, stmts) ==
    IF stmts = <<>> THEN s
    ELSE ApplyAll(Apply(Head(stmts), s).s, Tail(stmts))

\* The run x of an operation made of stmts left committed all of them when
\* it returned, and nothing when it raised.
AllOrNothing(x, stmts) ==
    IF x.exc = "none"
    THEN Schema(x.c) = Schema(ApplyAll(committed, stmts))
    ELSE Schema(x.c) = Schema(committed)

CreateTableChanges(tbl, df, metadata) ==
    create_table_statements(tbl, df.nrow, RenamedColumns(df.labels, metadata),
                            metadata)

\* Some statement of the log changed the schema and a later call failed.
FailedAfterChange(log) ==
    \E i, j \in 1..Len(log) :
        /\ i < j
        /\ log[i].ok
        /\ log[i].k \in {"CREATE TABLE", "DROP TABLE", "ADD COLUMN", "DROP COLUMN"}
        /\ ~log[j].ok

\* C1: create_table, drop_table, add_column and delete_column are atomic.
\* From every reachable state, with any arguments and with any one engine
\* call failing, the operation leaves committed either all of its physical
\* and catalog changes (when it returns) or none of them (when it raises).
C1_Atomic ==
    /\ \A tbl \in TableNames, df \in Datasets :
         \A sfx \in SuffixChoices(df.labels) :
           \A fault \in Faults(create_table(Start, tbl, df, sfx, 0)) :
              AllOrNothing(create_table(Start, tbl, df, sfx, fault),
                           CreateTableChanges(tbl, df,
                               generate_field_metadata(df.labels, sfx, nextUuid)))
    /\ \A tbl \in TableNames :
         \A fault \in Faults(drop_table(Start, tbl, 0)) :
            AllOrNothing(drop_table(Start, tbl, fault), drop_table_statements(tbl))
    /\ \A tbl \in TableNames, column \in Columns \cup PartialColumns :
         \A fault \in Faults(add_column(Start, tbl, column, 0)) :
            AllOrNothing(add_column(Start, tbl, column, fault),
                         add_column_statements(tbl, column))
    /\ \A tbl \in TableNames, column \in Columns \cup PartialColumns :
         \A fault \in Faults(delete_column(Start, tbl, column, 0)) :
            AllOrNothing(delete_column(Start, tbl, column, fault),
                         delete_column_statements(tbl, column))

\* A schema operation changed the schema inside its transaction, then one of
\* its calls failed, and it raised.
C1_Witness ==
    /\ last.op \in SchemaOps
    /\ last.exc # "none"
    /\ FailedAfterChange(last.log)

\* C2: for every hd_tables row, ncol is the number of columns of the physical
\* table the row names, which exists.
C2_NcolIsLive ==
    \A r \in BagToSet(committed.hdt) :
        /\ r.id \in TableNames
        /\ committed.phys[r.id].present
        /\ r.ncol = Cardinality(committed.phys[r.id].cols)

\* add_column or delete_column has committed on a table hd_tables records.
C2_Witness ==
    /\ last.op \in {"add_column", "delete_column"}
    /\ last.exc = "none"
    /\ \E r \in BagToSet(committed.hdt) : r.id = last.tbl /\ r.ncol >= 1

\* The hd_fields rows of db that name column col of table tbl.
FieldRows(db, tbl, col) ==
    BagCount(db.hdf, LAMBDA r : r.tbl = tbl /\ r.id = col)

\* C3: hd_fields rows and physical columns correspond one to one: every
\* physical column but the row key has exactly one hd_fields row of its table
\* and id, and every hd_fields row names a column of an existing table.
C3_OneToOne ==
    /\ \A tbl \in TableNames :
          \A col \in committed.phys[tbl].cols \ {RowKey} :
              FieldRows(committed, tbl, col) = 1
    /\ \A r \in BagToSet(committed.hdf) :
          /\ r.tbl \in TableNames
          /\ committed.phys[r.tbl].present
          /\ r.id \in committed.phys[r.tbl].cols

\* The hd_fields rows create_table inserts for the metadata it generated.
GeneratedFields(tbl, metadata) ==
    SeqToBag([i \in 1..Len(metadata) |->
                [fld___id |-> metadata[i].fld___id, id |-> metadata[i].id,
                 label |-> metadata[i].label, tbl |-> tbl, type |-> "Txt"]])

CreateTablePost(x, tbl, df, metadata) ==
    /\ ~committed.phys[tbl].present
    /\ x.c.hdt = BagAdd(committed.hdt,
                        [id |-> tbl, label |-> tbl, nrow |-> df.nrow,
                         ncol |-> Len(df.labels)])
    /\ x.c.hdf = committed.hdf (+) GeneratedFields(tbl, metadata)
    /\ BagCardinality(GeneratedFields(tbl, metadata)) = Len(df.labels)
    /\ x.c.phys[tbl] =
          [present |-> TRUE,
           cols |-> {metadata[i].id : i \in 1..Len(metadata)},
           nrow |-> df.nrow]
    /\ Cardinality(x.c.phys[tbl].cols) = Len(df.labels)

CreateTableReturns(x, tbl, df, metadata) ==
    x.exc = "none" => CreateTablePost(x, tbl, df, metadata)

\* C4: a create_table that returns, called with a dataset of N columns and R
\* rows, has added one hd_tables row (ncol = N, nrow = R), N hd_fields rows of
\* that table, one per column with its generated id and the type 'Txt', and
\* the physical table with those N columns and R rows.
C4_CreateTableAdds ==
    \A tbl \in TableNames, df \in Datasets :
      \A sfx \in SuffixChoices(df.labels) :
        \A fault \in Faults(create_table(Start, tbl, df, sfx, 0)) :
           CreateTableReturns(create_table(Start, tbl, df, sfx, fault), tbl, df,
                              generate_field_metadata(df.labels, sfx, nextUuid))

\* create_table has returned for a dataset of two columns and three rows.
C4_Witness ==
    /\ last.op = "create_table"
    /\ last.exc = "none"
    /\ Cardinality(committed.phys[last.tbl].cols) = 2
    /\ committed.phys[last.tbl].nrow = 3
    /\ \E r \in BagToSet(committed.hdt) :
          r.id = last.tbl /\ r.ncol = 2 /\ r.nrow = 3

\* create_table of an existing table, reaching its CREATE TABLE with a
\* dataset that has columns and with no failure of the engine's own.
RaisesTableExists(tbl) ==
    (token /\ hasExecute /\ ~inTxn /\ session.phys[tbl].present) =>
        \A df \in Datasets : \A sfx \in SuffixChoices(df.labels) :
            Len(df.labels) > 0 =>
                create_table(Start, tbl, df, sfx, 0).exc = "TableExistsError"

\* C5: create_table raises TableExistsError exactly when the physical table
\* exists: it raises it for an existing table, and whenever it has raised it
\* the table existed when it was called (any other engine failure raises
\* QueryError).
C5_TableExistsIffExisted ==
    /\ \A tbl \in TableNames : RaisesTableExists(tbl)
    /\ (last.op = "create_table" /\ last.exc = "TableExistsError")
          => last.existed

\* The run that starts where the run x ended.
Restart(x) ==
    [x EXCEPT !.n = 0, !.log = <<>>, !.err = "none", !.exc = "none", !.keys = {}]

\* No trace of table tbl in db.
Dropped(db, tbl) ==
    /\ ~db.phys[tbl].present
    /\ \A r \in BagToSet(db.hdt) : r.id # tbl
    /\ \A r \in BagToSet(db.hdf) : r.tbl # tbl

\* Every table but tbl is in db1 what it is in db0.
OthersUnchanged(db1, db0, tbl) ==
    /\ \A t \in TableNames \ {tbl} : db1.phys[t] = db0.phys[t]
    /\ BagKeep(db1.hdt, LAMBDA r : r.id # tbl)
          = BagKeep(db0.hdt, LAMBDA r : r.id # tbl)
    /\ BagKeep(db1.hdf, LAMBDA r : r.tbl # tbl)
          = BagKeep(db0.hdf, LAMBDA r : r.tbl # tbl)

\* The run y of a second drop_table, after the run x of a first one.
DropTableAgain(y, x) == y.exc = "none" /\ Schema(y.c) = Schema(x.c)

DropTableReturns(x, tbl) ==
    x.exc = "none" =>
        /\ Dropped(x.c, tbl)
        /\ OthersUnchanged(x.c, committed, tbl)
        /\ ~committed.phys[tbl].present => Schema(x.c) = Schema(committed)
        /\ DropTableAgain(drop_table(Restart(x), tbl, 0), x)

\* The wrapper can attach, the catalog relations exist, and the engine
\* failed no call of the operation before.
Attachable ==
    /\ token /\ hasExecute /\ session.cat
    /\ \A i \in 1..Len(last.log) : last.log[i].ok

\* C6: a drop_table(t) that returns has left no hd_tables row, no hd_fields
\* row and no physical table of t, and every other table as it was; a second
\* drop_table(t) then returns and changes nothing; and drop_table of a table
\* that does not exist returns and changes nothing (on a connection whose
\* wrapper can attach, whose catalog relations exist and whose engine failed
\* no call before and fails none now).
C6_DropTable ==
    \A tbl \in TableNames :
      /\ \A fault \in Faults(drop_table(Start, tbl, 0)) :
            DropTableReturns(drop_table(Start, tbl, fault), tbl)
      /\ (Attachable /\ ~session.phys[tbl].present)
            => drop_table(Start, tbl, 0).exc = "none"

\* The run d of delete_column(c) after the run of add_column(c), both returned.
Restored(d, tbl, column) ==
    /\ d.c.hdt = committed.hdt
    /\ d.c.phys = committed.phys
    /\ d.c.hdf = committed.hdf
    /\ \A r \in BagToSet(d.c.hdf) :
          ~(r.tbl = tbl /\ r.fld___id = column.fld___id)

DeleteAfterAdd(a, tbl, column) ==
    a.exc = "none" =>
        \/ delete_column(Restart(a), tbl, column, 0).exc # "none"
        \/ Restored(delete_column(Restart(a), tbl, column, 0), tbl, column)

\* C7: add_column(c) followed by delete_column(c), both returning, gives the
\* table the ncol it had, leaves no hd_fields row of the table with c's field
\* id, and leaves the physical columns and the other hd_fields rows as they
\* were before the add.
C7_AddThenDelete ==
    \A tbl \in TableNames, column \in Columns :
        DeleteAfterAdd(add_column(Start, tbl, column, 0), tbl, column)

\* The calls of the log from the operation's own first call on (the wrapper's
\* ATTACH is call 1 when it was made).
BodyCalls(log) ==
    { i \in 1..Len(log) : log[i].k # "ATTACH" }

\* C8: when an engine call of a schema operation fails, BEGIN, COMMIT and
\* ROLLBACK included, the caller gets QueryError or TableExistsError with
\* the table, org and db, and a ROLLBACK was issued.
C8_TypedError ==
    ( /\ last.op \in SchemaOps
      /\ \E i \in BodyCalls(last.log) : ~last.log[i].ok )
    => /\ last.exc \in {"QueryError", "TableExistsError"}
       /\ {"org", "db"} \subseteq last.keys
       /\ last.keys \cap {"table", "table_name"} # {}
       /\ \E i \in BodyCalls(last.log) : last.log[i].k = "ROLLBACK"

CreateDatabaseOps == {"create_database", "HdDB.create_database"}

\* C9: create_database with lists of different lengths raises the validation
\* error, and has made no engine call by then.
C9_ValidatesFirst ==
    ( /\ last.op \in CreateDatabaseOps
      /\ last.args.dataframes # Len(last.args.names) )
    => /\ last.exc = "ValueError"
       /\ last.log = <<>>

\* The tables of the engine's catalog.
Tables(db) ==
    db.mem \cup {t \in TableNames : db.phys[t].present}
           \cup (IF db.cat THEN {"hd_tables", "hd_fields"} ELSE {})

\* C10: after create_database has returned on a fresh connection, called with
\* N >= 1 datasets and N distinct names, the catalog holds the N named
\* tables, hd_fields and hd_tables, N + 2 tables in all.
C10_TablesAfterCreate ==
    ( /\ last.op \in CreateDatabaseOps
      /\ last.exc = "none"
      /\ Len(last.args.names) >= 1
      /\ steps = 1 )
    => /\ Tables(committed) =
            {last.args.names[i] : i \in 1..Len(last.args.names)}
               \cup {"hd_tables", "hd_fields"}
       /\ Cardinality(Tables(committed)) = Len(last.args.names) + 2


\* The run of create_database's body, from the attached run a, through its
\* first k create_table calls.
CreatedUpTo(a, dataframes, names, sfxs, fault, k) ==
    CreateTables(_create_hd_database(a, Len(dataframes), fault),
                 SubSeq(dataframes, 1, k), SubSeq(names, 1, k),
                 SubSeq(sfxs, 1, k), fault)

\* Table tbl of db is what create_table makes of the dataset df.
TableCommitted(db, tbl, df) ==
    /\ db.phys[tbl].present
    /\ db.phys[tbl].nrow = df.nrow
    /\ Cardinality(db.phys[tbl].cols) = Len(df.labels)
    /\ \E r \in BagToSet(db.hdt) :
          r.id = tbl /\ r.ncol = Len(df.labels) /\ r.nrow = df.nrow
    /\ BagCount(db.hdf, LAMBDA r : r.tbl = tbl) = Len(df.labels)

\* x is the run of create_database, p its run through k - 1 tables and q its
\* run through k tables: the k-th create_table is the first to fail.
FailedAtTable(x, p, q, dataframes, names, k) ==
    (p.exc = "none" /\ q.exc # "none") =>
        /\ x.exc = "QueryError"
        /\ x.log = q.log
        /\ [id |-> "org__db", db_n_tables |-> Len(dataframes)]
              \in BagToSet(x.c.hdd)
        /\ "hd_database" \in x.c.mem
        /\ Schema(x.c) = Schema(p.c)
        /\ \A i \in 1..(k - 1) : TableCommitted(x.c, names[i], dataframes[i])
        /\ \A t \in TableNames :
              (t \notin {names[i] : i \in 1..(k - 1)} /\ ~committed.phys[t].present)
                 => Dropped(x.c, t)

CreateDatabaseFailsAt(a, dataframes, names, sfxs, fault) ==
    (a.exc = "none" /\ Len(dataframes) = Len(names)) =>
        \A k \in 1..Len(names) :
            FailedAtTable(create_database(Start, dataframes, names, sfxs, fault),
                          CreatedUpTo(a, dataframes, names, sfxs, fault, k - 1),
                          CreatedUpTo(a, dataframes, names, sfxs, fault, k),
                          dataframes, names, k)

\* C11: create_database is not atomic across tables.  When the k-th
\* create_table is the first to fail, create_database raises QueryError, the
\* database record and tables 1..k-1 with their hd_tables and hd_fields rows
\* are committed, the k-th attempt has left nothing, and no engine call
\* follows it (tables k+1.. are not attempted).
C11_NotAtomicAcrossTables ==
    \A dataframes \in DatasetLists, names \in NameLists :
      \A sfxs \in SuffixLists(dataframes) :
        \A fault \in Faults(create_database(Start, dataframes, names, sfxs, 0)) :
           CreateDatabaseFailsAt(attach_motherduck(Start, fault),
                                 dataframes, names, sfxs, fault)

\* create_database raised after its first table was committed: the second
\* create_table failed after it had created its physical table.
C11_Witness ==
    /\ last.op = "create_database"
    /\ last.exc = "QueryError"
    /\ last.args.names = <<"users", "courses">>
    /\ steps = 1
    /\ TableCommitted(committed, "users", [labels |-> <<"Name">>, nrow |-> 1])
    /\ Dropped(committed, "courses")
    /\ BagCardinality(committed.hdd) = 1
    /\ Cardinality({i \in 1..Len(last.log) :
                      last.log[i].k = "CREATE TABLE" /\ last.log[i].ok}) = 2


\* The record get_table_metadata is to return for the hd_tables row r.
TableRecord(r) == [nrow |-> r.nrow, ncol |-> r.ncol, tbl_name |-> r.id]

\* The run x of get_table_metadata(tbl) with no engine failure.
ReadsTable(x, tbl) ==
    IF HdTablesRows(session, tbl) # {}
    THEN /\ x.exc = "none"
         /\ x.ret \in {TableRecord(r) : r \in HdTablesRows(session, tbl)}
    ELSE /\ x.exc = "QueryError"
         /\ x.ret = "None"

ChangesNothing(x) ==
    /\ x.c = committed
    /\ x.s = session
    /\ x.tx = inTxn

\* C12: get_table_metadata(t) returns the nrow, ncol and name of the
\* hd_tables row whose id is t when there is one, raises the not-found error
\* when there is none (on a connection whose wrapper can attach, whose catalog
\* relations exist and whose engine fails no call), and changes no state.
C12_GetTableMetadata ==
    \A tbl \in TableNames :
      /\ \A fault \in Faults(get_table_metadata(Start, tbl, 0)) :
            ChangesNothing(get_table_metadata(Start, tbl, fault))
      /\ (token /\ hasExecute /\ session.cat)
            => ReadsTable(get_table_metadata(Start, tbl, 0), tbl)


\* What identifies a field entry: its field id, its column id and its table.
Identity(r) == [fld___id |-> r.fld___id, id |-> r.id, tbl |-> r.tbl]

\* db1 is db0 but for the label and type of the hd_fields rows of field f.
OnlyLabelAndType(db1, db0, f) ==
    /\ db1.phys = db0.phys
    /\ db1.hdt = db0.hdt
    /\ BagOfAll(Identity, db1.hdf) = BagOfAll(Identity, db0.hdf)
    /\ BagKeep(db1.hdf, LAMBDA r : r.fld___id # f)
          = BagKeep(db0.hdf, LAMBDA r : r.fld___id # f)

\* The run x of update_field_metadata(f, label, type).
UpdatesField(x, f, label, type) ==
    /\ OnlyLabelAndType(x.s, session, f)
    /\ OnlyLabelAndType(x.c, committed, f)
    /\ x.exc = "none" =>
          \A r \in BagToSet(x.s.hdf) :
              r.fld___id = f => (r.label = label /\ r.type = type)

UpdateFieldMetadataFrame ==
    \A f \in FieldIds, type \in FieldTypes :
      \A fault \in Faults(update_field_metadata(Start, f, "Label", type, 0)) :
         UpdatesField(update_field_metadata(Start, f, "Label", type, fault),
                      f, "Label", type)

\* One step only adds field entries or only removes them: no entry that is
\* there before and after it has another field id, column id or table.
FieldIdsKept(db0, db1) ==
    \/ BagOfAll(Identity, db0.hdf) \sqsubseteq BagOfAll(Identity, db1.hdf)
    \/ BagOfAll(Identity, db1.hdf) \sqsubseteq BagOfAll(Identity, db0.hdf)

\* C13: update_field_metadata(f, label, type) changes only the label and the
\* type of the hd_fields rows whose field id is f: the field id, id and table
\* of every hd_fields row, the hd_tables rows and the physical tables stay as
\* they are; and no step of the schema operations changes the field id of a
\* field entry that exists before and after it.
C13_FieldIdPermanent ==
    /\ []UpdateFieldMetadataFrame
    /\ [][FieldIdsKept(committed, committed') /\ FieldIdsKept(session, session')]_vars

\* update_field_metadata has returned and has relabelled one of the two
\* fields of a table.
C13_Witness ==
    /\ last.op = "update_field_metadata"
    /\ last.exc = "none"
    /\ \E r1, r2 \in BagToSet(committed.hdf) :
          /\ r1.tbl = r2.tbl
          /\ r1.label = "Label"
          /\ r1.type = "Num"
          /\ r2.label # "Label"
          /\ r2.type = "Txt"


\* The next undrilled grouping column of a request that is grouping.
NextGroupColumn(params) == params.row_group_cols[Len(params.group_keys) + 1]

\* C14: for every request with row_group_cols = [], whatever its group keys,
\* sort and window, build_select_sql returns "SELECT *", build_where_sql
\* returns "" and build_group_sql returns "".
C14_NoGroupColumns ==
    (call.fn \in {"build_select_sql", "build_where_sql", "build_group_sql"}
       /\ call.args.row_group_cols = <<>>)
    => call.out = Returns(IF call.fn = "build_select_sql" THEN "SELECT *" ELSE "")

\* build_where_sql was applied to a request with group keys, a sort
\* expression and no grouping column.
C14_Witness ==
    /\ call.fn = "build_where_sql"
    /\ call.args.row_group_cols = <<>>
    /\ call.args.group_keys = <<"US", "NYC">>
    /\ ~call.args.sort.none
    /\ call.out = Returns("")

\* C15: when len(row_group_cols) > len(group_keys) the select clause names
\* the synthetic row key and the column row_group_cols[len(group_keys)], no
\* other, and the group-by clause groups by that column; otherwise the select
\* clause selects all columns and there is no group-by clause.
C15_NextGroupColumn ==
    /\ call.fn = "build_select_sql" =>
          call.out = Returns(
              IF Len(call.args.row_group_cols) > Len(call.args.group_keys)
              THEN "SELECT cast(uuid() as varchar) as rcd___id,"
                   \o NextGroupColumn(call.args)
              ELSE "SELECT *")
    /\ call.fn = "build_group_sql" =>
          call.out = Returns(
              IF Len(call.args.row_group_cols) > Len(call.args.group_keys)
              THEN "GROUP BY \"" \o NextGroupColumn(call.args) \o "\""
              ELSE "")

\* build_group_sql grouped by the second of two grouping columns, after one
\* group key.
C15_Witness ==
    /\ call.fn = "build_group_sql"
    /\ call.args.row_group_cols = <<"country", "city">>
    /\ call.args.group_keys = <<"US">>
    /\ call.out = Returns("GROUP BY \"city\"")

\* The equality of the i-th grouping column and the i-th group key.
Conjunct(params, i) ==
    "\"" \o params.row_group_cols[i] \o "\" = '" \o params.group_keys[i] \o "'"

\* The where clause the claim describes, alone or after one blank.
WhereClauses(params) ==
    { "WHERE " \o join(" AND ", [i \in 1..Len(params.group_keys) |->
                                    Conjunct(params, i)]),
      " WHERE " \o join(" AND ", [i \in 1..Len(params.group_keys) |->
                                     Conjunct(params, i)]) }

\* C16: build_where_sql returns "" when group_keys or row_group_cols is
\* empty; otherwise it returns a where clause of len(group_keys) equalities
\* joined by AND, the i-th of row_group_cols[i] and the literal group_keys[i]
\* (for ["US"] and ["country", "city"]: WHERE "country" = 'US').
C16_WhereClause ==
    call.fn = "build_where_sql" =>
        /\ call.out.exc = "none"
        /\ (call.args.group_keys = <<>> \/ call.args.row_group_cols = <<>>)
              => call.out.value = ""
        /\ ( /\ call.args.group_keys # <<>>
             /\ call.args.row_group_cols # <<>>
             /\ Len(call.args.group_keys) <= Len(call.args.row_group_cols) )
              => call.out.value \in WhereClauses(call.args)
        /\ ( /\ call.args.group_keys = <<"US">>
             /\ call.args.row_group_cols = <<"country", "city">> )
              => call.out.value \in { "WHERE \"country\" = 'US'",
                                      " WHERE \"country\" = 'US'" }

\* The terms of a sort expression: what its commas separate, without the
\* blanks around it.
Terms(sort) ==
    [i \in 1..Len(split_comma(sort.text)) |-> strip(split_comma(sort.text)[i])]

\* The terms whose leading column name is one of the grouping columns.
GroupTerms(params) ==
    SelectSeq(Terms(params.sort),
              LAMBDA term :
                 /\ term # <<>>
                 /\ \E i \in 1..Len(params.row_group_cols) :
                       Concat(first_word(term)) = params.row_group_cols[i])

OrderClause(params) ==
    IF params.sort.none \/ params.sort.text = <<>> THEN ""
    ELSE IF /\ Len(params.row_group_cols) > Len(params.group_keys)
            /\ Len(GroupTerms(params)) > Len(params.group_keys)
    THEN "ORDER BY " \o Concat(GroupTerms(params)[Len(params.group_keys) + 1])
    ELSE "ORDER BY " \o Concat(params.sort.text)

\* C17: build_order_sql returns no clause without a sort expression; when
\* grouping, it orders by the term at position len(group_keys) among the
\* sort terms whose leading column name is a grouping column, if there is
\* one; when not grouping, or with no such term, it passes the sort
\* expression through.
C17_OrderClause ==
    call.fn = "build_order_sql" => call.out = Returns(OrderClause(call.args))

\* The words and fragments of a query, without the blanks, the line breaks
\* and the empty fragments between them.
Words(pieces) ==
    SelectSeq(pieces, LAMBDA piece : piece \notin {" ", Newline, ""})

CountQuery(params, from_sql, where_sql) ==
    IF Len(params.row_group_cols) > Len(params.group_keys)
    THEN Words(<< "SELECT", "COUNT(*)", "FROM", "(",
                  "SELECT", "DISTINCT", NextGroupColumn(params),
                  from_sql, where_sql, ")" >>)
    ELSE Words(<< "SELECT", "COUNT(*)", from_sql, where_sql >>)

\* C18: build_count_sql, when grouping, counts the distinct values of
\* row_group_cols[len(group_keys)] over the from and where fragments it is
\* given, and is otherwise a plain row count over them; in both cases the
\* where fragment of the main query is used as it is.
C18_CountQuery ==
    call.fn = "build_count_sql" =>
        /\ call.out.exc = "none"
        /\ Words(call.out.value) =
              CountQuery(call.args.params, call.args.from_sql, call.args.where_sql)

\* A grouped count over the where fragment of a request one level down.
C18_Witness ==
    /\ call.fn = "build_count_sql"
    /\ call.args.params.row_group_cols = <<"country", "city">>
    /\ call.args.params.group_keys = <<"US">>
    /\ call.args.where_sql = " WHERE \"country\" = 'US'"
    /\ call.out.exc = "none"

\* C19: the construction of a fetch request with end_row <= start_row raises
\* a validation error, and one with start_row >= 0 and end_row > start_row
\* gives the request.
C19_WindowValidated ==
    call.fn = "FetchParams" =>
        /\ call.args.end_row <= call.args.start_row
              => call.out.exc = "ValidationError"
        /\ (call.args.start_row >= 0 /\ call.args.end_row > call.args.start_row)
              => /\ call.out.exc = "none"
                 /\ call.out.value = call.args


\* The ids of the form slug, "_", six letters.
Suffixed(slug) ==
    { slug \o "_" \o letters : letters \in {l \in Suffixes : Len(l) = length} }

\* C20: generate_field_id(label) returns slug(label) + "_" + 6 letters for
\* every label but the reserved row-key name ("Name" gives name_ and six
\* letters, "City of Birth" gives city_of_birth_ and six letters), and
\* returns the row-key name as it is, so that applying it again to what it
\* returned for the row-key name changes nothing.
C20_FieldIdShape ==
    call.fn = "generate_field_id" =>
        /\ call.out.exc = "none"
        /\ call.args.column_name # RowKey
              => call.out.value \in Suffixed(slugify(call.args.column_name))
        /\ call.args.column_name = "Name" => call.out.value \in Suffixed("name")
        /\ call.args.column_name = "City of Birth"
              => call.out.value \in Suffixed("city_of_birth")
        /\ call.args.column_name = RowKey =>
              /\ call.out.value = RowKey
              /\ \A random_suffix \in Suffixes :
                    generate_field_id(call.out.value, random_suffix)
                       = call.out.value

\* generate_field_id was applied to the reserved row-key name.
C20_Witness ==
    /\ call.fn = "generate_field_id"
    /\ call.args.column_name = "rcd___id"
    /\ call.out = Returns("rcd___id")


(***************************************************************************)
(* C21: generate_field_metadata returns one entry per input column, in     *)
(* input order, each with exactly the keys fld___id, label and id, the     *)
(* label being the column's name; the field ids of one call differ from    *)
(* each other and from every field id an earlier call produced.            *)
(***************************************************************************)
\* The field ids of a metadata list.
FieldIdsOf(metadata) == {metadata[i].fld___id : i \in 1..Len(metadata)}

\* One entry per column, in order, with the three keys and distinct field ids.
OneEntryPerColumn(labels, metadata) ==
    /\ Len(metadata) = Len(labels)
    /\ \A i \in 1..Len(labels) :
          /\ DOMAIN metadata[i] = {"fld___id", "label", "id"}
          /\ metadata[i].label = labels[i]
    /\ Cardinality(FieldIdsOf(metadata)) = Len(labels)

\* Every field id handed out so far is below nextUuid.
HandedOut == 1..(nextUuid - 1)

C21_FreshFieldMetadata ==
    /\ [](call.fn = "generate_field_metadata"
            => /\ call.out.exc = "none"
               /\ OneEntryPerColumn(call.args, call.out.value)
               /\ FieldIdsOf(call.out.value) \subseteq HandedOut)
    /\ [][call'.fn = "generate_field_metadata" /\ nextUuid' # nextUuid
            => FieldIdsOf(call'.out.value) \cap HandedOut = {}]_vars

\* A second call on the same input as the call before it.
C21_Witness ==
    /\ call.fn = "generate_field_metadata"
    /\ call.args = <<"Name">>
    /\ call.out.value[1].fld___id = 2
    /\ call.out.value[1].label = "Name"


(***************************************************************************)
(* C22: in create_table, drop_table, add_column, delete_column,            *)
(* update_field_metadata and the creation of the database record, the      *)
(* engine calls after the attach begin with BEGIN, the physical statements *)
(* come before the catalog statements, COMMIT is the last call of an       *)
(* operation that returns, and every physical or catalog statement lies    *)
(* between a BEGIN that succeeded and the next COMMIT or ROLLBACK.         *)
(***************************************************************************)
TransactionalOps ==
    {"create_table", "drop_table", "add_column", "delete_column",
     "update_field_metadata", "create_database"}

PhysicalKinds ==
    {"CREATE TABLE", "INSERT DATA", "DROP TABLE", "ADD COLUMN", "DROP COLUMN"}
CatalogKinds ==
    {"INSERT hd_tables", "CREATE TEMP", "INSERT temp", "INSERT hd_fields SELECT",
     "DROP TEMP", "DELETE hd_tables", "DELETE hd_fields tbl", "UPDATE ncol",
     "INSERT hd_fields", "DELETE hd_fields fld", "UPDATE hd_fields",
     "CREATE hd_database", "INSERT hd_database"}
ControlKinds == {"BEGIN", "COMMIT", "ROLLBACK"}

\* Call i lies between a BEGIN that succeeded and the next COMMIT or ROLLBACK.
InBracket(log, i) ==
    \E b \in 1..(i - 1) :
        /\ log[b].k = "BEGIN"
        /\ log[b].ok
        /\ \A j \in (b + 1)..(i - 1) : log[j].k \notin ControlKinds

\* No catalog statement is followed, in the same bracket, by a physical one.
PhysicalBeforeCatalog(log) ==
    \A i, j \in 1..Len(log) :
        (/\ i < j
         /\ log[i].k \in CatalogKinds
         /\ log[j].k \in PhysicalKinds)
        => \E m \in (i + 1)..(j - 1) : log[m].k \in ControlKinds

Bracketed(log, returned) ==
    /\ log # <<>> => log[1].k = "BEGIN"
    /\ returned => log # <<>> /\ log[Len(log)].k = "COMMIT"
    /\ PhysicalBeforeCatalog(log)
    /\ \A i \in 1..Len(log) :
          log[i].k \in PhysicalKinds \cup CatalogKinds => InBracket(log, i)

C22_StatementOrder ==
    last.op \in TransactionalOps
        => Bracketed(SelectSeq(last.log, LAMBDA e : e.k # "ATTACH"),
                     last.exc = "none")


(***************************************************************************)
(* C23: every operation that touches the remote target attaches to it,     *)
(* successfully, before its first other engine call; the attach lies in no *)
(* transaction of the operation; and without the remote credential the     *)
(* operation fails before any engine call.                                 *)
(***************************************************************************)
RemoteOps ==
    {"create_database", "drop_database", "HdDB.drop_database", "create_table",
     "drop_table", "add_column", "delete_column", "get_table_metadata",
     "update_field_metadata"}

\* The first engine call is the attach, and another call follows it only
\* when it succeeded.
AttachesFirst(log) ==
    log # <<>> => /\ log[1].k = "ATTACH"
                  /\ Len(log) > 1 => log[1].ok

AttachOutsideTransaction(log) ==
    \A i \in 1..Len(log) : log[i].k = "ATTACH" => ~InBracket(log, i)

C23_AttachFirst ==
    last.op \in RemoteOps
        => /\ AttachesFirst(last.log)
           /\ AttachOutsideTransaction(last.log)
           /\ ~token => last.exc # "none" /\ last.log = <<>>


(***************************************************************************)
(* C24: in the committed database no two hd_fields rows have the same      *)
(* table and the same physical column id, whatever schema operations were  *)
(* committed before.                                                       *)
(***************************************************************************)
\* The hd_fields rows of db, repeated rows counted, that name column id of tbl.
RowsOfColumn(db, tbl, id) ==
    BagCount(db.hdf, LAMBDA r : r.tbl = tbl /\ r.id = id)

UniqueColumnIds(db) ==
    \A r \in BagToSet(db.hdf) : RowsOfColumn(db, r.tbl, r.id) = 1

C24_TableIdUnique == UniqueColumnIds(committed)


(***************************************************************************)
(* C25: the construction of a fetch request with more group keys than      *)
(* grouping columns raises a validation error, so that no such request     *)
(* reaches the query builder.                                              *)
(***************************************************************************)
MoreKeysThanColumns(params) ==
    Len(params.group_keys) > Len(params.row_group_cols)

C25_GroupKeysBounded ==
    (call.fn = "FetchParams" /\ MoreKeysThanColumns(call.args))
        => call.out.exc = "ValidationError"


(***************************************************************************)
(* C26: clean_dataframe stores every cell as text: the empty string for    *)
(* None and NaN, and for every other cell its own text, the texts "nan"    *)
(* and "None" included.                                                    *)
(***************************************************************************)
Missing(value) == value.kind \in {"None", "NaN"}

C26_CleanDataframe ==
    call.fn = "clean_dataframe"
        => /\ call.out.exc = "none"
           /\ Len(call.out.value) = Len(call.args)
           /\ \A i \in 1..Len(call.args) :
                 call.out.value[i] =
                    IF Missing(call.args[i]) THEN "" ELSE str(call.args[i])


(***************************************************************************)
(* C27: when a schema operation has returned or raised, the connection has *)
(* no open transaction; every BEGIN of the operation that succeeded is     *)
(* followed by a COMMIT or ROLLBACK of the operation, and the operation    *)
(* issues ROLLBACK only after a BEGIN of its own that succeeded.           *)
(***************************************************************************)
\* Every BEGIN that succeeded is closed by a later COMMIT or ROLLBACK.
EveryBeginClosed(log) ==
    \A b \in 1..Len(log) :
        (log[b].k = "BEGIN" /\ log[b].ok)
        => \E j \in (b + 1)..Len(log) : log[j].k \in {"COMMIT", "ROLLBACK"}

RollbackOnlyInTransaction(log) ==
    \A i \in 1..Len(log) : log[i].k = "ROLLBACK" => InBracket(log, i)

C27_NoOpenTransaction ==
    last.op \in SchemaOps
        => /\ ~inTxn
           /\ EveryBeginClosed(last.log)
           /\ RollbackOnlyInTransaction(last.log)


(***************************************************************************)
(* C28: when grouping is in effect and build_order_sql returns a clause,   *)
(* the clause orders by one column, the grouping column that the select    *)
(* list and the GROUP BY clause of the same request name.                  *)
(***************************************************************************)
\* The clauses that order by column alone, in either direction, the column
\* name quoted or not.
OrdersBy(column) ==
    { "ORDER BY " \o name \o direction :
        name \in {column, "\"" \o column \o "\""},
        direction \in {"", " ASC", " DESC"} }

C28_OrdersByGroupColumn ==
    ( /\ call.fn = "build_order_sql"
      /\ Len(call.args.row_group_cols) > Len(call.args.group_keys)
      /\ call.out.exc = "none"
      /\ call.out.value # "" )
    => /\ call.out.value \in OrdersBy(NextGroupColumn(call.args))
       /\ build_group_sql(call.args) =
             Returns("GROUP BY \"" \o NextGroupColumn(call.args) \o "\"")

=============================================================================
